---- MODULE Spec2Model ----
(***************************************************************************)
(* Model of view_db.py: the database viewer of the Pharmaceutical          *)
(* Intelligence Platform.  One run of the script (the __main__ block       *)
(* calling view_database) is a sequential program; pc is its position.     *)
(*                                                                         *)
(* Text is a sequence of one-character strings.  A printed line is a       *)
(* record: site is the source line of the print call, at is the            *)
(* <<table, record, column>> the line was printed for, name/text/n are     *)
(* the values interpolated into the f-string of that print call.           *)
(***************************************************************************)
EXTENDS Integers, Sequences, FiniteSets

\* ---------------------------------------------------------------- bounds

\* longest tail appended to the generated texts of the formatting databases
MaxTail == 3
\* most rows of a table in the generated databases
MaxRows == 3
\* most columns of the free-form table in the generated databases
MaxCols == 2

\* ------------------------------------------------------- program constants

\* view_db.py:75  len(value) > 100 and value[:100]
TruncLen == 100

\* view_db.py:76  the "..." that follows value[:100]
Marker == <<".", ".", ".">>

\* view_db.py:70  col in ['trace', 'data']
OpaqueCols == {"trace", "data"}

\* view_db.py:87-97  the four tables the summary counts, in query order
Expected == <<"ClinicalTrial", "Patent", "Job", "Report">>

\* view_db.py:87,90,93,96  the source line of each of the four COUNT queries
CountSite == <<"L87", "L90", "L93", "L96">>

\* view_db.py:105-131  the grouped-count sections, in order: the table, the
\* grouped column, and the lines of the header print, the query and the
\* per-group print
Sections ==
    << [table |-> "ClinicalTrial", col |-> "phase",   head |-> "L106", exec |-> "L107", line |-> "L109"],
       [table |-> "ClinicalTrial", col |-> "country", head |-> "L111", exec |-> "L112", line |-> "L114"],
       [table |-> "Patent",        col |-> "status",  head |-> "L117", exec |-> "L118", line |-> "L120"],
       [table |-> "Patent",        col |-> "ftoFlag", head |-> "L122", exec |-> "L123", line |-> "L125"],
       [table |-> "Job",           col |-> "status",  head |-> "L128", exec |-> "L129", line |-> "L131"] >>

\* ------------------------------------------------------------------ values

\* A stored value as sqlite3 hands it to Python: str, int, None or bytes.
TextV(s) == [k |-> "text", s |-> s, n |-> 0]
IntV(n)  == [k |-> "int",  s |-> <<>>, n |-> n]
NullV    == [k |-> "null", s |-> <<>>, n |-> 0]
BlobV(s) == [k |-> "blob", s |-> s, n |-> 0]

\* view_db.py:70  the truth value of `value`: a non-empty str or bytes, a
\* nonzero int; None is false
Truthy(v) ==
    CASE v.k = "text" -> Len(v.s) > 0
      [] v.k = "blob" -> Len(v.s) > 0
      [] v.k = "int"  -> v.n # 0
      [] OTHER        -> FALSE

\* view_db.py:71  len(value) is defined for str and bytes and raises TypeError
\* for an int
HasLen(v) == v.k \in {"text", "blob"}

\* view_db.py:75  isinstance(value, str)
IsStr(v) == v.k = "text"

DigitChar == <<"0", "1", "2", "3", "4", "5", "6", "7", "8", "9">>

\* the decimal text of a natural number, as an f-string formats an int
RECURSIVE Digits(_)
Digits(n) ==
    IF n < 10 THEN << DigitChar[n + 1] >>
    ELSE Digits(n \div 10) \o << DigitChar[(n % 10) + 1] >>

\* view_db.py:78  f"{value}": str(value) of a str, an int, None, bytes
Str(v) ==
    CASE v.k = "text" -> v.s
      [] v.k = "int"  -> Digits(v.n)
      [] v.k = "null" -> <<"N", "o", "n", "e">>
      [] OTHER        -> <<"b", "'">> \o v.s \o <<"'">>

\* view_db.py:71  f"[JSON data, {len(value)} chars]"
LengthText(len) ==
    <<"[", "J", "S", "O", "N", " ", "d", "a", "t", "a", ",", " ">>
        \o Digits(len) \o <<" ", "c", "h", "a", "r", "s", "]">>

\* view_db.py:76  value[:100]
Truncated(s) == SubSeq(s, 1, TruncLen)

\* view_db.py:70  the test of the first formatting branch
OpaqueBranch(col, value) == col \in OpaqueCols /\ Truthy(value)

\* view_db.py:75  the test of the second formatting branch
LongTextBranchMutant(col, value) == IsStr(value) /\ Len(value.s) >= TruncLen
LongTextBranch(col, value) == IsStr(value) /\ Len(value.s) > TruncLen

\* view_db.py:70-78  what the column loop does with one value: the print call
\* that runs and the text it interpolates, or the TypeError of len(value)
Render(col, value) ==
    IF OpaqueBranch(col, value)
    THEN IF HasLen(value)
         THEN [ok |-> TRUE,  site |-> "L71", text |-> LengthText(Len(value.s))]
         ELSE [ok |-> FALSE, site |-> "L71", text |-> <<>>]
    ELSE IF LongTextBranch(col, value)
         THEN [ok |-> TRUE, site |-> "L76", text |-> Truncated(value.s) \o Marker]
         ELSE [ok |-> TRUE, site |-> "L78", text |-> Str(value)]

\* -------------------------------------------------------------- databases

\* the table names of the generated databases, in the order of
\* view_db.py:45  ORDER BY name
NameOrder == <<"ClinicalTrial", "Job", "Note", "Patent", "Report">>
Names == {NameOrder[i] : i \in 1..Len(NameOrder)}

\* view_db.py:27  table_name.upper()
Upper(name) ==
    CASE name = "ClinicalTrial" -> "CLINICALTRIAL"
      [] name = "Job"           -> "JOB"
      [] name = "Note"          -> "NOTE"
      [] name = "Patent"        -> "PATENT"
      [] name = "Report"        -> "REPORT"
      [] OTHER                  -> name

\* A table of the database file: whether it exists, which of the dumper's
\* two queries fails on it ("none", "count", "select"), its columns and rows.
Table(cols, rows) == [exists |-> TRUE, bad |-> "none", cols |-> cols, rows |-> rows]
Absent == [exists |-> FALSE, bad |-> "none", cols |-> <<>>, rows |-> <<>>]

Rep(ch, n) == [i \in 1..n |-> ch]
SeqsUpTo(S, n) == UNION {[1..m -> S] : m \in 0..n}
SeqsFrom(S, lo, n) == UNION {[1..m -> S] : m \in lo..n}

T(str) == TextV(str)
P1 == T(<<"P", "1">>)
P2 == T(<<"P", "2">>)
US == T(<<"U", "S">>)
Granted == T(<<"o", "k">>)
Pending == T(<<"n", "o">>)
Done == T(<<"d", "o", "n", "e">>)
Failed == T(<<"f", "a", "i", "l">>)
Json == T(<<"{", "}">>)

TrialCols  == <<"phase", "country">>
PatentCols == <<"status", "ftoFlag">>
JobCols    == <<"status", "trace">>
ReportCols == <<"data">>

TrialRows  == {<<p, c>> : p \in {P1, P2}, c \in {US, NullV}}
PatentRows == {<<s, f>> : s \in {Granted, Pending}, f \in {IntV(0), IntV(1)}}
JobRows    == {<<s, t>> : s \in {Done, Failed}, t \in {Json, NullV}}

\* five tables with fixed small content
Full ==
    [t \in Names |->
        CASE t = "ClinicalTrial" -> Table(TrialCols, << <<P1, US>> >>)
          [] t = "Patent"        -> Table(PatentCols, <<>>)
          [] t = "Job"           -> Table(JobCols, << <<Done, Json>> >>)
          [] t = "Report"        -> Table(ReportCols, <<>>)
          [] OTHER               -> Table(<<"title">>, <<>>)]

\* the four expected tables with fixed small content
Base == [Full EXCEPT !["Note"] = Absent]

\* the four expected tables, all empty
Blank ==
    [t \in Names |->
        CASE t = "ClinicalTrial" -> Table(TrialCols, <<>>)
          [] t = "Patent"        -> Table(PatentCols, <<>>)
          [] t = "Job"           -> Table(JobCols, <<>>)
          [] t = "Report"        -> Table(ReportCols, <<>>)
          [] OTHER               -> Absent]

\* databases that differ in which tables exist and in which table is unreadable
PresenceDBs ==
    { [t \in Names |-> IF t \in S
                       THEN IF t = b[1] THEN [Full[t] EXCEPT !.bad = b[2]] ELSE Full[t]
                       ELSE Absent] :
        S \in SUBSET Names, b \in (Names \X {"none", "count", "select"}) }

\* the texts of the formatting databases: runs of "a" around the truncation
\* length, followed by every tail over {"a", "."} of at most MaxTail characters
Texts ==
    { Rep("a", n) \o t : n \in {0, TruncLen - 1, TruncLen}, t \in SeqsUpTo({"a", "."}, MaxTail) }

Values ==
    {TextV(s) : s \in Texts}
        \cup {NullV, IntV(0), IntV(5), BlobV(<<>>), BlobV(<<"x", "y">>)}

FewValues == {T(<<"a">>), IntV(7)}

NoteCols == <<"title", "data", "trace">>

\* databases with a one-cell table Note holding each value under each column name
CellDBs ==
    { [Blank EXCEPT !["Note"] = Table(<<c>>, << <<v>> >>)] :
        c \in {"title", "data", "trace"}, v \in Values }

\* databases with a table Note of up to MaxCols columns and MaxRows - 1 rows
GridDBs ==
    UNION { { [Blank EXCEPT !["Note"] = Table(SubSeq(NoteCols, 1, w), rs)] :
                rs \in SeqsFrom([1..w -> FewValues], 1, MaxRows - 1) } :
            w \in 1..MaxCols }

\* databases that differ in the rows of one grouped table
GroupDBs ==
    { [Base EXCEPT !["ClinicalTrial"].rows = rs] : rs \in SeqsUpTo(TrialRows, MaxRows) }
        \cup { [Blank EXCEPT !["Patent"].rows = rs] : rs \in SeqsUpTo(PatentRows, MaxRows) }
        \cup { [Blank EXCEPT !["Job"].rows = rs] : rs \in SeqsUpTo(JobRows, MaxRows) }

\* databases whose grouped tables lack a grouped column
DriftDBs ==
    { [Base EXCEPT ![s.table] = Table(<<"id">>, << <<IntV(1)>> >>)] :
        s \in {Sections[i] : i \in 1..Len(Sections)} }
        \cup { [Base EXCEPT !["ClinicalTrial"] = Table(<<"phase">>, << <<P1>> >>)],
               [Base EXCEPT !["Patent"] = Table(<<"status">>, << <<Granted>> >>)] }

Databases == PresenceDBs \cup CellDBs \cup GridDBs \cup GroupDBs \cup DriftDBs

\* ------------------------------------------------------------------ state

VARIABLES
    fileExists,   \* view_db.py:34   Path(db_path).exists()
    db,           \* the tables of the database file
    pc,           \* the position of the run
    conn,         \* view_db.py:40   the connection: "none", "open", "closed"
    tables,       \* view_db.py:46   tables
    idx,          \* view_db.py:51   the position of the table loop
    count,        \* view_db.py:53   count
    rows,         \* view_db.py:58   rows
    columns,      \* view_db.py:62   columns
    r,            \* view_db.py:64   i, the record number
    c,            \* view_db.py:66   the position of the column loop
    counts,       \* view_db.py:88-97  clinical_count, patent_count, job_count, report_count
    q,            \* the next of the four COUNT queries of the summary
    sec,          \* the next grouped-count section of the summary
    out,          \* the lines printed so far
    fault,        \* the source line that raised, or "none"
    enumerated    \* the tables whose columns view_db.py:62 has listed

vars == <<fileExists, db, pc, conn, tables, idx, count, rows, columns, r, c,
          counts, q, sec, out, fault, enumerated>>

NoAt == <<"", 0, 0>>

\* a printed line
Line(site, at, name, text, n) ==
    [site |-> site, at |-> at, name |-> name, text |-> text, n |-> n]

\* a print call that interpolates nothing, or only a number
Plain(site) == Line(site, NoAt, "", <<>>, 0)
Num(site, n) == Line(site, NoAt, "", <<>>, n)

Init ==
    /\ fileExists \in BOOLEAN
    /\ db \in Databases
    /\ pc = "check"
    /\ conn = "none"
    /\ tables = <<>>
    /\ idx = 0
    /\ count = 0
    /\ rows = <<>>
    /\ columns = <<>>
    /\ r = 0
    /\ c = 0
    /\ counts = <<>>
    /\ q = 0
    /\ sec = 0
    /\ out = <<>>
    /\ fault = "none"
    /\ enumerated = {}

\* an exception raised at a source line leaves view_database at once
Raise(site) ==
    /\ pc' = "raised"
    /\ fault' = site

\* view_db.py:34  Path(db_path).exists()
PathExistsMutant == TRUE
PathExists == fileExists

\* view_db.py:34-38  the existence check, the early return
CheckPath ==
    /\ pc = "check"
    /\ IF PathExists
       THEN /\ out' = Append(out, Plain("L38"))
            /\ pc' = "connect"
       ELSE /\ out' = Append(out, Plain("L35"))
            /\ pc' = "returned"
    /\ UNCHANGED <<fileExists, db, conn, tables, idx, count, rows, columns, r, c,
                   counts, q, sec, fault, enumerated>>

\* view_db.py:40-42  sqlite3.connect, row_factory, cursor
Connect ==
    /\ pc = "connect"
    /\ conn' = "open"
    /\ pc' = "catalog"
    /\ UNCHANGED <<fileExists, db, tables, idx, count, rows, columns, r, c,
                   counts, q, sec, out, fault, enumerated>>

\* view_db.py:45-46  the names of the catalog, ORDER BY name
CatalogMutant(d) == SelectSeq(NameOrder, LAMBDA t : d[t].exists \/ t = "Note")
Catalog(d) == SelectSeq(NameOrder, LAMBDA t : d[t].exists)

\* view_db.py:45-48  the catalog query and the "Found n tables" line
ListTables ==
    /\ pc = "catalog"
    /\ tables' = Catalog(db)
    /\ out' = Append(out, Num("L48", Len(Catalog(db))))
    /\ idx' = 1
    /\ pc' = "loop"
    /\ UNCHANGED <<fileExists, db, conn, count, rows, columns, r, c,
                   counts, q, sec, fault, enumerated>>

\* view_db.py:26-28  print_table_header
TableHeader(name, n) ==
    << Plain("L26"), Line("L27", <<name, 0, 0>>, Upper(name), <<>>, n), Plain("L28") >>

\* view_db.py:52  SELECT COUNT(*) FROM table raises
CountFailsMutant(d, t) == d[t].bad = "count"
CountFails(d, t) == ~d[t].exists \/ d[t].bad = "count"

\* view_db.py:57  SELECT * FROM table raises
SelectFails(d, t) == ~d[t].exists \/ d[t].bad \in {"count", "select"}

\* view_db.py:51-55  the next table: its COUNT query and its banner
TableCount ==
    /\ pc = "loop"
    /\ idx <= Len(tables)
    /\ IF CountFails(db, tables[idx])
       THEN /\ Raise("L52")
            /\ UNCHANGED <<count, out>>
       ELSE /\ count' = Len(db[tables[idx]].rows)
            /\ out' = out \o TableHeader(tables[idx], Len(db[tables[idx]].rows))
            /\ pc' = "select"
            /\ UNCHANGED fault
    /\ UNCHANGED <<fileExists, db, conn, tables, idx, rows, columns, r, c,
                   counts, q, sec, enumerated>>

\* view_db.py:60  if rows
HasRowsMutant(rs) == Len(rs) > 1
HasRows(rs) == Len(rs) > 0

\* view_db.py:57-62, 79-80  the rows of the table; its columns when there are
\* rows, the "(No records)" line when there are none
TableSelect ==
    /\ pc = "select"
    /\ IF SelectFails(db, tables[idx])
       THEN /\ Raise("L57")
            /\ UNCHANGED <<rows, columns, r, c, idx, out, enumerated>>
       ELSE /\ rows' = db[tables[idx]].rows
            /\ UNCHANGED fault
            /\ IF HasRows(db[tables[idx]].rows)
               THEN /\ columns' = db[tables[idx]].cols
                    /\ enumerated' = enumerated \cup {tables[idx]}
                    /\ r' = 1
                    /\ pc' = "record"
                    /\ UNCHANGED <<c, idx, out>>
               ELSE /\ out' = Append(out, Line("L80", <<tables[idx], 0, 0>>, "", <<>>, 0))
                    /\ idx' = idx + 1
                    /\ pc' = "loop"
                    /\ UNCHANGED <<columns, enumerated, r, c>>
    /\ UNCHANGED <<fileExists, db, conn, tables, count, counts, q, sec>>

\* view_db.py:64-65  the "--- Record i ---" line
RecordHeader ==
    /\ pc = "record"
    /\ out' = Append(out, Line("L65", <<tables[idx], r, 0>>, "", <<>>, r))
    /\ c' = 1
    /\ pc' = "column"
    /\ UNCHANGED <<fileExists, db, conn, tables, idx, count, rows, columns, r,
                   counts, q, sec, fault, enumerated>>

\* view_db.py:66-78  one column of one record
PrintColumn ==
    /\ pc = "column"
    /\ LET col == columns[c]
           value == rows[r][c]
           res == Render(col, value)
       IN IF ~res.ok
          THEN /\ Raise(res.site)
               /\ UNCHANGED <<out, c, r, idx>>
          ELSE /\ out' = Append(out, Line(res.site, <<tables[idx], r, c>>, col, res.text, 0))
               /\ UNCHANGED fault
               /\ IF c < Len(columns)
                  THEN /\ c' = c + 1
                       /\ UNCHANGED <<pc, r, idx>>
                  ELSE IF r < Len(rows)
                       THEN /\ r' = r + 1
                            /\ pc' = "record"
                            /\ UNCHANGED <<c, idx>>
                       ELSE /\ idx' = idx + 1
                            /\ pc' = "loop"
                            /\ UNCHANGED <<c, r>>
    /\ UNCHANGED <<fileExists, db, conn, tables, count, rows, columns,
                   counts, q, sec, enumerated>>

\* view_db.py:83-85  the end of the table loop and the SUMMARY banner
SummaryHeader ==
    /\ pc = "loop"
    /\ idx > Len(tables)
    /\ out' = out \o << Plain("L83"), Plain("L84"), Plain("L85") >>
    /\ q' = 1
    /\ pc' = "count"
    /\ UNCHANGED <<fileExists, db, conn, tables, idx, count, rows, columns, r, c,
                   counts, sec, fault, enumerated>>

\* view_db.py:87-97  one of the four COUNT queries of the summary
CountQuery ==
    /\ pc = "count"
    /\ IF CountFails(db, Expected[q])
       THEN /\ Raise(CountSite[q])
            /\ UNCHANGED <<counts, q>>
       ELSE /\ counts' = Append(counts, Len(db[Expected[q]].rows))
            /\ q' = q + 1
            /\ pc' = IF q = Len(Expected) THEN "totals" ELSE "count"
            /\ UNCHANGED fault
    /\ UNCHANGED <<fileExists, db, conn, tables, idx, count, rows, columns, r, c,
                   sec, out, enumerated>>

\* view_db.py:99-102  the four count lines
PrintCounts ==
    /\ pc = "totals"
    /\ out' = out \o << Num("L99", counts[1]), Num("L100", counts[2]),
                        Num("L101", counts[3]), Num("L102", counts[4]) >>
    /\ sec' = 1
    /\ pc' = "group"
    /\ UNCHANGED <<fileExists, db, conn, tables, idx, count, rows, columns, r, c,
                   counts, q, fault, enumerated>>

\* the position of a column in a table, 0 when the table has no such column
ColIndex(cols, col) ==
    IF \E i \in 1..Len(cols) : cols[i] = col
    THEN CHOOSE i \in 1..Len(cols) : cols[i] = col
    ELSE 0

\* view_db.py:107  GROUP BY col, COUNT(*): the distinct values of the column
GroupValues(t, ci) == {t.rows[i][ci] : i \in 1..Len(t.rows)}

\* view_db.py:107  COUNT(*) of one group
GroupCount(t, ci, v) == Cardinality({i \in 1..Len(t.rows) : t.rows[i][ci] = v})

\* view_db.py:107  ORDER BY count DESC, over result rows <<value, count>>
OrderedMutant(res) ==
    \A i, j \in 1..Len(res) : i < j => res[i][2] <= res[j][2]
Ordered(res) ==
    \A i, j \in 1..Len(res) : i < j => res[i][2] >= res[j][2]

\* view_db.py:107,112,118,123,129  the results a grouped-count query may
\* return: one row <<value, count>> per distinct value, ordered by count
\* descending, rows of equal count in any order
GroupQuery(t, ci) ==
    LET vals == GroupValues(t, ci)
        n == Cardinality(vals)
    IN { res \in [1..n -> {<<v, GroupCount(t, ci, v)>> : v \in vals}] :
            /\ \A i, j \in 1..n : i # j => res[i] # res[j]
            /\ Ordered(res) }

\* view_db.py:108-109  one "label: count" line per result row
GroupLines(s, res) ==
    [i \in 1..Len(res) |-> Line(s.line, <<s.table, 0, 0>>, s.col, Str(res[i][1]), res[i][2])]

\* view_db.py:105,116,127  the count that guards a section
SectionCount(cs, s) == cs[CHOOSE i \in 1..Len(Expected) : Expected[i] = s.table]

\* view_db.py:105-131  one grouped-count section: skipped when its table is
\* empty, else its header, its query and its lines
GroupSection ==
    /\ pc = "group"
    /\ LET s == Sections[sec]
           t == db[s.table]
           ci == ColIndex(t.cols, s.col)
       IN IF SectionCount(counts, s) > 0
          THEN IF ci = 0
               THEN /\ out' = Append(out, Plain(s.head))
                    /\ Raise(s.exec)
                    /\ UNCHANGED sec
               ELSE /\ \E res \in GroupQuery(t, ci) :
                          out' = Append(out, Plain(s.head)) \o GroupLines(s, res)
                    /\ sec' = sec + 1
                    /\ pc' = IF sec = Len(Sections) THEN "finish" ELSE "group"
                    /\ UNCHANGED fault
          ELSE /\ sec' = sec + 1
               /\ pc' = IF sec = Len(Sections) THEN "finish" ELSE "group"
               /\ UNCHANGED <<out, fault>>
    /\ UNCHANGED <<fileExists, db, conn, tables, idx, count, rows, columns, r, c,
                   counts, q, enumerated>>

\* view_db.py:133-136  the closing banner, conn.close(), the completion line
Finish ==
    /\ pc = "finish"
    /\ out' = out \o << Plain("L133"), Plain("L136") >>
    /\ conn' = "closed"
    /\ pc' = "returned"
    /\ UNCHANGED <<fileExists, db, tables, idx, count, rows, columns, r, c,
                   counts, q, sec, fault, enumerated>>

\* view_db.py:144  view_database returns to the __main__ block
Return ==
    /\ pc = "returned"
    /\ pc' = "exit"
    /\ UNCHANGED <<fileExists, db, conn, tables, idx, count, rows, columns, r, c,
                   counts, q, sec, out, fault, enumerated>>

\* view_db.py:146-148  what the except clause prints: the error, the traceback
CatchLinesMutant(site) == << Line("L146", NoAt, site, <<>>, 0) >>
CatchLines(site) == << Line("L146", NoAt, site, <<>>, 0), Line("L148", NoAt, site, <<>>, 0) >>

\* view_db.py:145-148  the except clause of the __main__ block
TopCatch ==
    /\ pc = "raised"
    /\ out' = out \o CatchLines(fault)
    /\ pc' = "exit"
    /\ UNCHANGED <<fileExists, db, conn, tables, idx, count, rows, columns, r, c,
                   counts, q, sec, fault, enumerated>>

Next ==
    \/ CheckPath
    \/ Connect
    \/ ListTables
    \/ TableCount
    \/ TableSelect
    \/ RecordHeader
    \/ PrintColumn
    \/ SummaryHeader
    \/ CountQuery
    \/ PrintCounts
    \/ GroupSection
    \/ Finish
    \/ Return
    \/ TopCatch

Spec == Init /\ [][Next]_vars

\* ------------------------------------------------------------- properties

Lines == 1..Len(out)
HasSite(site) == \E i \in Lines : out[i].site = site
IsPrefix(a, b) == Len(a) <= Len(b) /\ SubSeq(b, 1, Len(a)) = a

\* the lines of the column loop, and the stored value a line was printed for
ValueSites == {"L71", "L76", "L78"}
Cell(l) == db[l.at[1]].rows[l.at[2]][l.at[3]]

\* the lines of a table section of the dump
TableSites == {"L26", "L27", "L28", "L65", "L80"} \cup ValueSites

\* the count lines, the grouped-count lines and the completion message
SummarySites ==
    {"L99", "L100", "L101", "L102", "L136"}
        \cup {Sections[k].head : k \in 1..Len(Sections)}
        \cup {Sections[k].line : k \in 1..Len(Sections)}

\* the expected tables that the database lacks, by position in Expected
Missing == {i \in 1..Len(Expected) : ~db[Expected[i]].exists}

\* C1: a run that opened a connection ends with the connection closed.
C1_ClosedOnEveryExit ==
    (pc = "exit" /\ conn # "none") => conn = "closed"

\* C2: when the database file does not exist the run prints the "not found"
\* line and nothing else, opens no connection, runs no query and returns
\* without an error.
C2_MissingFile ==
    ~fileExists =>
        /\ conn = "none"
        /\ fault = "none"
        /\ pc \in {"check", "returned", "exit"}
        /\ pc # "check" => out = << Plain("L35") >>
        /\ tables = <<>> /\ rows = <<>> /\ counts = <<>> /\ idx = 0 /\ q = 0

C2_Witness ==
    ~fileExists /\ pc = "exit" /\ out = << Plain("L35") >> /\ conn = "none"

\* C3: when one of ClinicalTrial, Patent, Job, Report is missing, the run
\* never prints a count line, a grouped-count line or the completion message
\* and ends in a fault; once the summary is entered the fault is raised by the
\* COUNT query of the first missing table.
C3_NoPartialSummary ==
    (fileExists /\ Missing # {}) =>
        /\ \A i \in Lines : out[i].site \notin SummarySites
        /\ pc \notin {"totals", "group", "finish", "returned"}
        /\ pc = "exit" => fault # "none"
        /\ (pc = "exit" /\ HasSite("L85")) =>
              \E m \in Missing : /\ \A n \in Missing : m <= n
                                 /\ fault = CountSite[m]

C3_Witness ==
    /\ pc = "exit" /\ Missing = {4} /\ fault = "L96"
    /\ HasSite("L85") /\ ~HasSite("L99") /\ Len(counts) = 3

\* C4 as stated: in a column not named trace or data, a text of more than 100
\* characters is printed as its first 100 characters and "...", and the
\* printed text does not reproduce the whole original; a text of at most 100
\* characters is printed unchanged.
C4_Original ==
    \A i \in Lines :
        (out[i].site \in ValueSites /\ out[i].name \notin OpaqueCols /\ IsStr(Cell(out[i]))) =>
            LET s == Cell(out[i]).s
            IN IF Len(s) > 100
               THEN /\ out[i].text = SubSeq(s, 1, 100) \o <<".", ".", ".">>
                    /\ ~IsPrefix(s, out[i].text)
               ELSE out[i].text = s

\* C4 as amended: the same, except that the printed text reproduces the whole
\* original exactly when what follows the first 100 characters is ".", ".."
\* or "...".
C4_Truncation ==
    \A i \in Lines :
        (out[i].site \in ValueSites /\ out[i].name \notin OpaqueCols /\ IsStr(Cell(out[i]))) =>
            LET s == Cell(out[i]).s
            IN IF Len(s) > 100
               THEN /\ out[i].text = SubSeq(s, 1, 100) \o <<".", ".", ".">>
                    /\ IsPrefix(s, out[i].text)
                          <=> SubSeq(s, 101, Len(s)) \in {<<".">>, <<".", ".">>, <<".", ".", ".">>}
               ELSE out[i].text = s

C4_Witness ==
    \E i \in Lines :
        /\ out[i].site = "L76" /\ out[i].name = "title"
        /\ Len(Cell(out[i]).s) = 102
        /\ Len(out[i].text) = 103
        /\ ~IsPrefix(Cell(out[i]).s, out[i].text)

\* C5: when the column loop reaches a column named trace or data whose value
\* is non-empty, it prints the line that holds only the length of the value.
C5_OpaqueLengthOnly ==
    [][(pc = "column" /\ columns[c] \in OpaqueCols /\ Truthy(rows[r][c])) =>
          /\ Len(out') = Len(out) + 1
          /\ out'[Len(out')].site = "L71"
          /\ out'[Len(out')].text = LengthText(Len(rows[r][c].s))]_vars

\* C6: a table with no rows gets its banner with count 0 and the
\* "(No records)" line, its columns are not listed and no record of it is
\* printed; a table with rows never gets the "(No records)" line.
C6_EmptyTable ==
    \A i \in Lines :
        out[i].site = "L27" =>
            LET t == out[i].at[1]
                selecting == pc = "select" /\ tables[idx] = t
            IN /\ out[i].name = Upper(t)
               /\ db[t].bad # "count" => out[i].n = Len(db[t].rows)
               /\ (db[t].bad = "none" /\ Len(db[t].rows) = 0) =>
                     /\ out[i].n = 0
                     /\ t \notin enumerated
                     /\ \A j \in Lines :
                           out[j].site \in ({"L65"} \cup ValueSites) => out[j].at[1] # t
                     /\ ~selecting =>
                           /\ Len(out) >= i + 2
                           /\ out[i + 2] = Line("L80", <<t, 0, 0>>, "", <<>>, 0)
               /\ Len(db[t].rows) > 0 =>
                     \A j \in Lines : out[j].site = "L80" => out[j].at[1] # t

C6_Witness ==
    /\ pc = "exit" /\ fault = "none"
    /\ \E i, j \in Lines :
          /\ out[i].site = "L27" /\ out[i].n = 0 /\ out[i + 2].site = "L80"
          /\ out[j].site = "L27" /\ out[j].n > 0 /\ out[j].at[1] \in enumerated

\* the lines of one grouped-count section, in print order
SectionLines(k) == SelectSeq(out, LAMBDA l : l.site = Sections[k].line)

\* C7: the lines of a grouped-count section are in descending order of
\* count, and the section has one line per distinct value of the column, whose
\* count is the number of rows with that value.
C7_GroupedDescending ==
    \A k \in 1..Len(Sections) :
        LET ls == SectionLines(k)
            t == db[Sections[k].table]
            ci == ColIndex(t.cols, Sections[k].col)
            printed == pc \in {"group", "finish", "returned", "exit", "raised"}
                        /\ Len(counts) = Len(Expected) /\ sec > k
        IN /\ \A i, j \in 1..Len(ls) : i < j => ls[i].n >= ls[j].n
           /\ (printed /\ Len(t.rows) > 0) =>
                 LET vals == {t.rows[i][ci] : i \in 1..Len(t.rows)}
                 IN /\ Len(ls) = Cardinality(vals)
                    /\ \A v \in vals :
                          \E i \in 1..Len(ls) :
                              /\ ls[i].text = Str(v)
                              /\ ls[i].n = Cardinality({x \in 1..Len(t.rows) : t.rows[x][ci] = v})
           /\ (printed /\ Len(t.rows) = 0) => Len(ls) = 0

C7_Witness ==
    /\ pc = "exit"
    /\ \E i, j \in Lines :
          /\ i < j
          /\ out[i].site = "L109" /\ out[i].text = <<"P", "1">> /\ out[i].n = 2
          /\ out[j].site = "L109" /\ out[j].text = <<"P", "2">> /\ out[j].n = 1

\* C8: a fault raised after the connection is opened takes the run straight
\* to the top-level catch with nothing printed in between, and the catch
\* prints the error line and the trace and ends the run.
C8_FaultReachesTopCatch ==
    [][/\ (fault = "none" /\ fault' # "none") =>
              /\ conn = "open"
              /\ pc' = "raised"
              /\ \A i \in 1..Len(out') : i > Len(out) =>
                     out'[i].site \in {Sections[k].head : k \in 1..Len(Sections)}
       /\ pc = "raised" =>
              /\ fault # "none"
              /\ pc' = "exit"
              /\ out' = out \o << Line("L146", NoAt, fault, <<>>, 0),
                                  Line("L148", NoAt, fault, <<>>, 0) >>
       /\ fault # "none" => (fault' = fault /\ (pc # "raised" => out' = out))]_vars

C8_Witness ==
    /\ pc = "exit" /\ fault = "L57"
    /\ out[Len(out)].site = "L148" /\ out[Len(out) - 1].site = "L146"
    /\ ~HasSite("L85")

\* C9: for a database with no tables the run prints "Found 0 tables", prints
\* no line of a table section, and goes on to the summary banner.
C9_NoTables ==
    (fileExists /\ \A t \in Names : ~db[t].exists) =>
        /\ \A i \in Lines : out[i].site \notin TableSites
        /\ pc \notin {"select", "record", "column"}
        /\ Len(out) >= 2 => out[2] = Num("L48", 0)
        /\ Len(out) >= 3 => out[3].site = "L83"

C9_Witness ==
    /\ fileExists /\ pc = "exit" /\ tables = <<>>
    /\ \A t \in Names : ~db[t].exists
    /\ out[2] = Num("L48", 0) /\ out[3].site = "L83"

\* C10: formatting a value never raises, and a run that completes has printed
\* exactly one line for every column of every row of every table.
C10_EveryValuePrinted ==
    /\ fault # "L71"
    /\ (pc = "exit" /\ fault = "none" /\ fileExists) =>
          \A t \in Names : db[t].exists =>
              \A x \in 1..Len(db[t].rows) : \A y \in 1..Len(db[t].cols) :
                  Cardinality({i \in Lines : out[i].site \in ValueSites
                                              /\ out[i].at = <<t, x, y>>}) = 1

====
